---- MODULE Spec2Model ----
(***************************************************************************)
(* Brief generation pipeline of scanx-brief (brief/utils.py,               *)
(* brief/models.py): the registry client's paged search, the record        *)
(* normalizer, the narrative analyzer and the generate/refresh             *)
(* orchestrator with its persisted Brief and Trial rows.                   *)
(***************************************************************************)
EXTENDS Integers, Sequences, FiniteSets, TLC

VARIABLES
    callers,    \* the callers that make calls in this behaviour
    registry,   \* the ways the registry may answer a search in this behaviour
    sScript,    \* registry behaviour seen by one search_studies call
    sMax,       \* settings.CLINICALTRIALS_MAX_RESULTS of that call
    sOut,       \* outcome of that call, or Pending
    db,         \* the Brief table: one row per brief id
    trialsOf,   \* the Trial table, grouped by the brief the rows belong to
    proc,       \* per caller: the generate/refresh call it is executing
    runs,       \* number of generate/refresh calls made so far
    demo_mode,  \* AIAnalyzer.demo_mode, fixed by settings.OPENAI_API_KEY
    selIn,      \* trials handed to one _filter_relevant_trials call
    selOut,     \* what that call returned, or Pending
    advIn,      \* arguments of one search_studies_advanced call
    advOut,     \* outcome of that call, or Pending
    anOut,      \* a direct analyze_trials call and its outcome, or Pending
    reqIn,      \* how the HTTP attempts of one _make_request call go
    reqOut      \* outcome of that call, or Pending

searchVars == <<sScript, sMax, sOut>>

\* The variables of the calls made on one component alone.
unitVars == <<sScript, sMax, sOut, selIn, selOut, advIn, advOut, anOut, reqIn, reqOut>>

orchVars == <<callers, registry, db, trialsOf, proc, runs, demo_mode>>

Pending == [pending |-> TRUE]

Max(a, b) == IF a >= b THEN a ELSE b

Take(s, n) == SubSeq(s, 1, IF Len(s) < n THEN Len(s) ELSE n)

RECURSIVE Pow2(_)
Pow2(n) == IF n = 0 THEN 1 ELSE 2 * Pow2(n - 1)

(***************************************************************************)
(* Registry client                                                         *)
(***************************************************************************)

\* while page_count < max_pages
max_pages_off == 5 + 1
max_pages == 5

\* def _make_request(self, url, max_retries = 3)
max_retries_off == 3 + 1
max_retries == 3

\* pageSize=100 in the request URL
PageSize == 100

\* studies[:5] handed to _log_search_analysis
LogSampleSize == 5

\* A raw study of the registry: its nctId ("" when the record has none) and
\* a structural defect: "protocol" is a null protocolSection, "sponsor" a
\* null sponsorCollaboratorsModule.
Study(nct, defect) == [nct |-> nct, defect |-> defect]

\* One page fetch as the registry answers it: the number of HTTP attempts
\* that fail before one succeeds, the studies of the page and whether the
\* response carries a nextPageToken.
Page(fails, studies, token) == [fails |-> fails, studies |-> studies, token |-> token]

\* A registry that is asked beyond its script answers with an empty page.
PageAt(script, i) == IF i <= Len(script) THEN script[i] ELSE Page(0, <<>>, FALSE)

\* _make_request: the retry loop.  attempt counts from 0; the HTTP call of
\* attempt k fails iff k < fails.
RECURSIVE MakeRequestLoop(_, _, _)
MakeRequestLoop(fails, attempt, slept) ==
    IF attempt >= max_retries
    THEN [ok |-> FALSE, attempts |-> attempt, slept |-> slept]
    ELSE IF attempt >= fails
         THEN [ok |-> TRUE, attempts |-> attempt + 1, slept |-> slept]
         ELSE IF attempt = max_retries - 1
              THEN [ok |-> FALSE, attempts |-> attempt + 1, slept |-> slept]
              ELSE MakeRequestLoop(fails, attempt + 1, Append(slept, Pow2(attempt)))

MakeRequest_off(fails) == [ok |-> fails = 0, attempts |-> 1, slept |-> <<>>]
MakeRequest(fails) == MakeRequestLoop(fails, 0, <<>>)

\* The number of attempts that fail before one succeeds, for attempts that
\* go "ok", "timeout" (requests.exceptions.Timeout) or "error" (any other
\* RequestException, raise_for_status included).
RECURSIVE LeadingFailures(_)
LeadingFailures(outcomes) ==
    IF outcomes = <<>> \/ Head(outcomes) = "ok" THEN 0
    ELSE 1 + LeadingFailures(Tail(outcomes))

\* _log_search_analysis raises on a sample record whose protocolSection is
\* null (protocol.get on None); its result is only logged.
LogSearchAnalysisRaises(sample) ==
    \E i \in 1..Len(sample) : sample[i].defect = "protocol"

SearchRaise_off(fetches, http) ==
    [error |-> FALSE, studies |-> <<>>, fetches |-> fetches, http |-> http]
SearchRaise(fetches, http) ==
    [error |-> TRUE, studies |-> <<>>, fetches |-> fetches, http |-> http]

SearchReturn(all_studies, fetches, http) ==
    [error |-> FALSE, studies |-> all_studies, fetches |-> fetches, http |-> http]

\* search_studies: the paging loop.  The page requested in an iteration is
\* page page_count + 1 of the script, since page_count grows exactly when
\* the loop goes round again.
RECURSIVE SearchLoop(_, _, _, _, _)
SearchLoop(script, max_results, all_studies, page_count, http) ==
    IF ~(page_count < max_pages)
    THEN SearchReturn(all_studies, page_count, http)
    ELSE LET resp    == PageAt(script, page_count + 1)
             req     == MakeRequest(resp.fails)
             http2   == http + req.attempts
             fetches == page_count + 1
             all2    == all_studies \o resp.studies
         IN  IF ~req.ok
             THEN IF page_count = 0
                  THEN SearchRaise(fetches, http2)
                  ELSE SearchReturn(all_studies, fetches, http2)
             ELSE IF resp.studies = <<>>
             THEN SearchReturn(all_studies, fetches, http2)
             ELSE IF page_count = 0
                     /\ LogSearchAnalysisRaises(Take(resp.studies, LogSampleSize))
             THEN SearchRaise(fetches, http2)
             ELSE IF ~resp.token
             THEN SearchReturn(all2, fetches, http2)
             ELSE IF Len(all2) >= max_results
             THEN SearchReturn(all2, fetches, http2)
             ELSE SearchLoop(script, max_results, all2, page_count + 1, http2)

search_studies(script, max_results) == SearchLoop(script, max_results, <<>>, 0, 0)

\* The query search_studies_advanced hands on, as the list of the pieces it
\* is put together from.
AdvancedQuery(query_parts, operator, include_observational) ==
    LET search_query == IF Len(query_parts) = 1
                        THEN query_parts[1]
                        ELSE query_parts[1] \o <<" ", operator, " ">> \o query_parts[2]
    IN  IF ~include_observational
        THEN <<"(">> \o search_query \o <<") AND AREA[StudyType]Interventional">>
        ELSE search_query

\* The outcome of a delegated search_studies call.
Delegated(search_query, out) ==
    [error |-> IF out.error THEN "ClinicalTrialsAPIError" ELSE "",
     query |-> search_query, calls |-> 1, http |-> out.http, studies |-> out.studies]

\* search_studies_advanced; "" stands for a term that is None or empty.
\* calls counts the search_studies calls made, http the HTTP requests.
search_studies_advanced_off(condition, intervention, operator, include_observational, script, max_results) ==
    Delegated(<<condition, intervention>>, search_studies(script, max_results))
search_studies_advanced(condition, intervention, operator, include_observational, script, max_results) ==
    LET query_parts ==
            (IF condition # "" THEN << <<"AREA[ConditionSearch]", condition>> >> ELSE <<>>)
            \o (IF intervention # ""
                THEN << <<"AREA[InterventionSearch]", intervention>> >> ELSE <<>>)
    IN  IF Len(query_parts) = 0
        THEN [error |-> "ValueError", query |-> <<>>, calls |-> 0, http |-> 0,
              studies |-> <<>>]
        ELSE Delegated(AdvancedQuery(query_parts, operator, include_observational),
                       search_studies(script, max_results))

(***************************************************************************)
(* Registry behaviours fed to one search                                   *)
(***************************************************************************)

\* Length of the registry scripts; a registry asked for a page beyond its
\* script answers with an empty page.
ScriptLen == 5

NctOfPage == <<"NCT1", "NCT2", "NCT3", "NCT4", "NCT5", "NCT6", "NCT7", "NCT8">>

Fill(n, i) == [j \in 1..n |-> Study(NctOfPage[i], "none")]

\* The answers the registry may give to the request for page i.
PageKindIds == {"down", "empty", "short", "full", "last"}

PageOfKind(kind, i) ==
    CASE kind = "down"  -> Page(max_retries, <<>>, FALSE)
      [] kind = "empty" -> Page(0, <<>>, TRUE)
      [] kind = "short" -> Page(max_retries - 1, Fill(1, i), TRUE)
      [] kind = "full"  -> Page(0, Fill(PageSize, i), TRUE)
      [] kind = "last"  -> Page(1, Fill(PageSize, i), FALSE)

SearchScripts == { [i \in 1..ScriptLen |-> PageOfKind(k[i], i)] :
                     k \in [1..ScriptLen -> PageKindIds] }

MaxResultsChoices == {1, 250, 600}


(***************************************************************************)
(* Persisted rows and the values the pipeline computes                     *)
(***************************************************************************)

\* Brief.STATUS_GENERATING / STATUS_COMPLETED / STATUS_FAILED
STATUS_GENERATING == "generating"
STATUS_COMPLETED == "completed"
STATUS_FAILED == "failed"

\* Number of Brief rows the store may hold.
NumBriefs == 2

\* Number of generate/refresh calls in one behaviour.
MaxRuns == 2

Briefs == 1..NumBriefs

Procs == {"p1", "p2"}

\* Brief.search_metadata: null until a report is stored.
NoMeta == [present |-> FALSE, query |-> "", total_results |-> 0, total_analyzed |-> 0]

\* Brief.gpt_summary: blank until a summary is stored.  kind and mode tell the
\* texts apart, over lists the trials a narrative was computed from, run
\* names the call that wrote the text.
NoSummary ==
    [kind |-> "blank", mode |-> "", topic |-> "", over |-> <<>>, msg |-> "", run |-> 0]

\* the provider's text
AnalysisSummary(topic, over, run) ==
    [kind |-> "analysis", mode |-> "live", topic |-> topic, over |-> over,
     msg |-> "", run |-> run]

\* _generate_demo_analysis
DemoSummary(topic, over, run) ==
    [kind |-> "analysis", mode |-> "demo", topic |-> topic, over |-> over,
     msg |-> "", run |-> run]

\* "No clinical trials found for analysis."
CannedNoTrials(run) ==
    [kind |-> "notrials", mode |-> "analyzer", topic |-> "", over |-> <<>>,
     msg |-> "", run |-> run]

NoTrialsSummary_off(topic, run) == NoSummary
NoTrialsSummary(topic, run) ==
    [kind |-> "notrials", mode |-> "", topic |-> topic, over |-> <<>>,
     msg |-> "", run |-> run]

ErrorSummary(e, run) ==
    [kind |-> "error", mode |-> "", topic |-> "", over |-> <<>>, msg |-> e, run |-> run]

\* A Brief object: the fields save() writes.
NoBrief == [exists |-> FALSE, topic |-> "", status |-> STATUS_GENERATING,
            gpt_summary |-> NoSummary, search_metadata |-> NoMeta]

\* Brief.objects.create(topic = ..., status = STATUS_GENERATING)
NewBrief_off(topic) == [exists |-> TRUE, topic |-> topic, status |-> STATUS_COMPLETED,
                        gpt_summary |-> NoSummary, search_metadata |-> NoMeta]
NewBrief(topic) == [exists |-> TRUE, topic |-> topic, status |-> STATUS_GENERATING,
                    gpt_summary |-> NoSummary, search_metadata |-> NoMeta]

\* Trial.start_date: <<>> is None, <<d>> the date d days before today (a
\* negative d is a date to come).
NoDate == <<>>

\* A Trial row; run names the call that inserted it (rows are distinct even
\* when their nct_id repeats).  The studies of the registry behaviours below
\* carry no phase and no start date, and come in the order of their nctId,
\* which is then the order of brief.trials.all() (Trial.Meta.ordering).
Trial(nct, run) == [nct_id |-> nct, phase |-> "", start_date |-> NoDate, run |-> run]

\* Brief.can_be_refreshed(): refreshable only when Completed or Failed.
can_be_refreshed(brief) == brief.status \in {STATUS_COMPLETED, STATUS_FAILED}

\* if not brief.can_be_refreshed(): raise ValueError
RefreshAccepted_off(brief) == TRUE
RefreshAccepted_busy(brief) == brief.status # STATUS_FAILED
RefreshAccepted(brief) == can_be_refreshed(brief)

\* brief.status = Brief.STATUS_GENERATING (refresh)
MarkedBrief_off(brief) == brief
MarkedBrief(brief) == [brief EXCEPT !.status = STATUS_GENERATING]

\* brief.trials.all().delete()
ClearedTrials_off(rows) == rows
ClearedTrials(rows) == <<>>

\* brief.status = Brief.STATUS_COMPLETED
CompletedBrief_off(brief) == brief
CompletedBrief(brief) == [brief EXCEPT !.status = STATUS_COMPLETED]

\* generate's handler: status Failed, summary the error message
FailedBrief_off(brief, e, run) == [brief EXCEPT !.gpt_summary = ErrorSummary(e, run)]
FailedBrief_nomsg(brief, e, run) == [brief EXCEPT !.status = STATUS_FAILED]
FailedBrief(brief, e, run) ==
    [brief EXCEPT !.status = STATUS_FAILED, !.gpt_summary = ErrorSummary(e, run)]

\* refresh's handler: brief.status = original_status
RestoredBrief_off(brief, original_status) == [brief EXCEPT !.status = STATUS_FAILED]
RestoredBrief(brief, original_status) == [brief EXCEPT !.status = original_status]

\* create_trial_from_study: None for a record whose extraction raises or
\* that has no nctId, else the created row.
Normalizes_off(study) == study.defect = "none"
Normalizes(study) == study.defect = "none" /\ study.nct # ""

create_trial_from_study_off(rows, study, run) == Append(rows, Trial(study.nct, run))
create_trial_from_study(rows, study, run) ==
    IF Normalizes(study) THEN Append(rows, Trial(study.nct, run)) ELSE rows

\* max_samples = 15 in the orchestrator's report calls
ReportSamples == 15

\* get_search_transparency_report: a second search_studies call, then the
\* field analysis of the first max_samples studies, which raises on a
\* record with a null protocolSection.
get_search_transparency_report(script, max_results, query) ==
    LET out    == search_studies(script, max_results)
        sample == Take(out.studies, ReportSamples)
    IN  IF out.error
        THEN [error |-> TRUE, e |-> "ClinicalTrialsAPIError", report |-> NoMeta]
        ELSE IF \E i \in 1..Len(sample) : sample[i].defect = "protocol"
        THEN [error |-> TRUE, e |-> "AttributeError", report |-> NoMeta]
        ELSE [error |-> FALSE, e |-> "",
              report |-> [present |-> TRUE, query |-> query,
                          total_results |-> Len(out.studies),
                          total_analyzed |-> Len(sample)]]

\* sorted_trials[:50]
RelevantCap_off == 50 + 1
RelevantCap == 50

\* phase_priority.get(trial.phase, 0)
phase_priority(phase) ==
    CASE phase = "PHASE4" -> 4
      [] phase = "PHASE3" -> 3
      [] phase = "PHASE2" -> 2
      [] phase = "PHASE1" -> 1
      [] OTHER -> 0

\* (today - datetime.date.min).days
DaysSinceDateMin == 739925

\* days_old = (today - (trial.start_date or datetime.date.min)).days
days_old(trial) ==
    IF trial.start_date = NoDate THEN DaysSinceDateMin ELSE trial.start_date[1]

\* recency_score, times 365: max(0, 365 - days_old) / 365
recency_score(trial) == Max(0, 365 - days_old(trial))

\* trial_score, times 365: phase_score + recency_score
trial_score(trial) == phase_priority(trial.phase) * 365 + recency_score(trial)

\* sorted(trials, key = trial_score, reverse = True): descending, and trials
\* of equal score stay in their input order.
RECURSIVE sorted_trials(_)
sorted_trials(trials) ==
    IF trials = <<>> THEN <<>>
    ELSE LET n    == Len(trials)
             x    == trials[n]
             done == sorted_trials(SubSeq(trials, 1, n - 1))
             k    == Cardinality({i \in 1..Len(done) :
                                     trial_score(done[i]) >= trial_score(x)})
         IN  SubSeq(done, 1, k) \o <<x>> \o SubSeq(done, k + 1, Len(done))

\* _filter_relevant_trials
filter_relevant_trials(rows) == Take(sorted_trials(rows), RelevantCap)

NctIds(rows) == [i \in 1..Len(rows) |-> rows[i].nct_id]

\* analyze_trials: the canned text for an empty list; in demo mode the
\* local narrative over all trials; in live mode the selector, the formatter
\* and one provider call, whose failure is raised as OpenAIError.  calls
\* counts the provider calls, selected tells whether the selector and the
\* formatter ran.
analyze_trials_fallback(topic, rows, demo, provider_ok, run) ==
    IF rows = <<>>
    THEN [error |-> FALSE, summary |-> CannedNoTrials(run), calls |-> 0,
          selected |-> FALSE]
    ELSE IF demo
    THEN [error |-> FALSE, summary |-> DemoSummary(topic, NctIds(rows), run),
          calls |-> 0, selected |-> FALSE]
    ELSE IF provider_ok
    THEN [error |-> FALSE,
          summary |-> AnalysisSummary(topic, NctIds(filter_relevant_trials(rows)), run),
          calls |-> 1, selected |-> TRUE]
    ELSE [error |-> FALSE, summary |-> DemoSummary(topic, NctIds(rows), run),
          calls |-> 1, selected |-> TRUE]
analyze_trials_live(topic, rows, demo, provider_ok, run) ==
    IF rows = <<>>
    THEN [error |-> FALSE, summary |-> CannedNoTrials(run), calls |-> 0,
          selected |-> FALSE]
    ELSE IF provider_ok
    THEN [error |-> FALSE,
          summary |-> AnalysisSummary(topic, NctIds(filter_relevant_trials(rows)), run),
          calls |-> 1, selected |-> TRUE]
    ELSE [error |-> TRUE, summary |-> NoSummary, calls |-> 1, selected |-> TRUE]
analyze_trials_noguard(topic, rows, demo, provider_ok, run) ==
    IF demo
    THEN [error |-> FALSE, summary |-> DemoSummary(topic, NctIds(rows), run),
          calls |-> 0, selected |-> FALSE]
    ELSE IF provider_ok
    THEN [error |-> FALSE,
          summary |-> AnalysisSummary(topic, NctIds(filter_relevant_trials(rows)), run),
          calls |-> 1, selected |-> TRUE]
    ELSE [error |-> TRUE, summary |-> NoSummary, calls |-> 1, selected |-> TRUE]
analyze_trials(topic, rows, demo, provider_ok, run) ==
    IF rows = <<>>
    THEN [error |-> FALSE, summary |-> CannedNoTrials(run), calls |-> 0,
          selected |-> FALSE]
    ELSE IF demo
    THEN [error |-> FALSE, summary |-> DemoSummary(topic, NctIds(rows), run),
          calls |-> 0, selected |-> FALSE]
    ELSE IF provider_ok
    THEN [error |-> FALSE,
          summary |-> AnalysisSummary(topic, NctIds(filter_relevant_trials(rows)), run),
          calls |-> 1, selected |-> TRUE]
    ELSE [error |-> TRUE, summary |-> NoSummary, calls |-> 1, selected |-> TRUE]

\* search term of a refresh
refresh_search_term_off(brief) == brief.topic
refresh_search_term(brief) ==
    IF brief.search_metadata.present THEN brief.search_metadata.query ELSE brief.topic

(***************************************************************************)
(* Registry behaviours and inputs of the orchestrator                      *)
(***************************************************************************)

\* settings.CLINICALTRIALS_MAX_RESULTS of the orchestrator's client
OrchMaxResults == 250

StudyA == Study("NCT1", "none")
StudyB == Study("NCT2", "none")
StudyNoId == Study("", "none")
StudyBadSponsor == Study("NCT3", "sponsor")
StudyBadProtocol == Study("NCT4", "protocol")

OrchScripts ==
    { <<Page(max_retries, <<>>, FALSE)>>,
      <<Page(0, <<>>, FALSE)>>,
      <<Page(0, <<StudyA>>, FALSE)>>,
      <<Page(0, <<StudyA, StudyNoId, StudyB>>, TRUE), Page(max_retries, <<>>, FALSE)>>,
      <<Page(1, <<StudyNoId>>, TRUE), Page(0, <<StudyBadSponsor>>, FALSE)>>,
      <<Page(0, <<StudyA, StudyBadProtocol>>, FALSE)>> }

\* The registry behaviours met by interleaved calls: down, one study, and
\* two studies with a failing second page.
ConcScripts ==
    { <<Page(max_retries, <<>>, FALSE)>>,
      <<Page(0, <<StudyA>>, FALSE)>>,
      <<Page(0, <<StudyB, StudyNoId>>, TRUE), Page(max_retries, <<>>, FALSE)>> }

SearchTerms == {"q1"}

\* display_topic; "" stands for None
DisplayTopics == {"", "t1"}

NoPre == [brief |-> NoBrief, trials |-> <<>>]

\* A caller between calls.  For the call in progress or last ended, pre
\* records the rows as they were when it was made, sscript the registry's
\* answer to its search, queries the query terms it sent to the registry,
\* regCalls, anCalls and aiCalls the registry
\* searches, analyze_trials calls and provider calls it has made, and
\* provider how its provider call went.
IdleProc ==
    [pc |-> "idle", op |-> "none", run |-> 0, bid |-> 0, brief |-> NoBrief,
     original_status |-> "", term |-> "", topic |-> "", studies |-> <<>>,
     idx |-> 0, err |-> "", outcome |-> "none", pre |-> NoPre,
     sscript |-> <<>>, queries |-> <<>>, regCalls |-> 0, anCalls |-> 0, aiCalls |-> 0,
     provider |-> "none"]

(***************************************************************************)
(* generate_brief                                                          *)
(***************************************************************************)

\* Brief.objects.create(...) and entry into the try block
GenerateCall(p, search_term, display_topic) ==
    /\ proc[p].pc = "idle"
    /\ runs < MaxRuns
    /\ \E b \in Briefs :
        /\ ~db[b].exists
        /\ \A c \in Briefs : c < b => db[c].exists
        /\ LET topic_for_display == IF display_topic # "" THEN display_topic ELSE search_term
               brief == NewBrief(topic_for_display)
           IN  /\ db' = [db EXCEPT ![b] = brief]
               /\ trialsOf' = [trialsOf EXCEPT ![b] = <<>>]
               /\ proc' = [proc EXCEPT ![p] =
                     [IdleProc EXCEPT !.pc = "g_search", !.op = "generate",
                                      !.run = runs + 1, !.bid = b, !.brief = brief,
                                      !.term = search_term, !.topic = topic_for_display,
                                      !.pre = [brief |-> db[b], trials |-> trialsOf[b]]]]
    /\ runs' = runs + 1
    /\ UNCHANGED <<callers, registry, demo_mode, unitVars>>

\* studies = api_client.search_studies(search_term)
GenerateSearch(p) ==
    /\ proc[p].pc = "g_search"
    /\ \E script \in registry :
        LET out == search_studies(script, OrchMaxResults)
        IN  proc' = [proc EXCEPT ![p] =
               IF out.error
               THEN [@ EXCEPT !.pc = "g_fail", !.err = "ClinicalTrialsAPIError",
                              !.sscript = script, !.regCalls = @ + 1,
                              !.queries = Append(@, proc[p].term)]
               ELSE [@ EXCEPT !.pc = "g_report", !.studies = out.studies,
                              !.sscript = script, !.regCalls = @ + 1,
                              !.queries = Append(@, proc[p].term)]]
    /\ UNCHANGED <<db, trialsOf, runs, callers, registry, demo_mode, unitVars>>

\* search_report = ...; brief.search_metadata = search_report; brief.save()
GenerateReport(p) ==
    /\ proc[p].pc = "g_report"
    /\ \E script \in registry :
        LET rep   == get_search_transparency_report(script, OrchMaxResults, proc[p].term)
            brief == [proc[p].brief EXCEPT !.search_metadata = rep.report]
        IN  IF rep.error
            THEN /\ proc' = [proc EXCEPT ![p] =
                        [@ EXCEPT !.pc = "g_fail", !.err = rep.e, !.regCalls = @ + 1,
                              !.queries = Append(@, proc[p].term)]]
                 /\ db' = db
            ELSE /\ proc' = [proc EXCEPT ![p] =
                        [@ EXCEPT !.pc = "g_trials", !.brief = brief, !.idx = 1,
                                  !.regCalls = @ + 1,
                              !.queries = Append(@, proc[p].term)]]
                 /\ db' = [db EXCEPT ![proc[p].bid] = brief]
    /\ UNCHANGED <<trialsOf, runs, callers, registry, demo_mode, unitVars>>

\* one iteration of: for study in studies: create_trial_from_study(study, brief)
GenerateCreateTrial(p) ==
    /\ proc[p].pc = "g_trials"
    /\ proc[p].idx <= Len(proc[p].studies)
    /\ trialsOf' = [trialsOf EXCEPT ![proc[p].bid] =
                      create_trial_from_study(@, proc[p].studies[proc[p].idx], proc[p].run)]
    /\ proc' = [proc EXCEPT ![p].idx = @ + 1]
    /\ UNCHANGED <<db, runs, callers, registry, demo_mode, unitVars>>

\* trials = list(brief.trials.all()); the analysis or the no-trials text
GenerateAnalyze_off(p) ==
    /\ proc[p].pc = "g_trials"
    /\ proc[p].idx > Len(proc[p].studies)
    /\ LET rows == trialsOf[proc[p].bid]
       IN  IF rows # <<>>
           THEN \E provider_ok \in BOOLEAN :
                  LET res == analyze_trials(proc[p].topic, rows, demo_mode,
                                            provider_ok, proc[p].run)
                  IN  proc' = [proc EXCEPT ![p] =
                         IF res.error
                         THEN [@ EXCEPT !.pc = "g_fail", !.err = "OpenAIError",
                                        !.anCalls = @ + 1,
                                        !.aiCalls = @ + res.calls,
                                        !.provider = "failed"]
                         ELSE [@ EXCEPT !.pc = "g_complete",
                                        !.brief.gpt_summary = res.summary,
                                        !.anCalls = @ + 1,
                                        !.aiCalls = @ + res.calls,
                                        !.provider = IF res.calls = 0 THEN "none"
                                                     ELSE IF provider_ok THEN "ok"
                                                     ELSE "failed"]]
           ELSE proc' = [proc EXCEPT ![p] =
                   [@ EXCEPT !.pc = "g_complete",
                             !.brief.gpt_summary = NoTrialsSummary(proc[p].topic, proc[p].run)]]
    /\ trialsOf' = [trialsOf EXCEPT ![proc[p].bid] =
                      IF demo_mode THEN @ ELSE filter_relevant_trials(@)]
    /\ UNCHANGED <<db, runs, callers, registry, demo_mode, unitVars>>
GenerateAnalyze(p) ==
    /\ proc[p].pc = "g_trials"
    /\ proc[p].idx > Len(proc[p].studies)
    /\ LET rows == trialsOf[proc[p].bid]
       IN  IF rows # <<>>
           THEN \E provider_ok \in BOOLEAN :
                  LET res == analyze_trials(proc[p].topic, rows, demo_mode,
                                            provider_ok, proc[p].run)
                  IN  proc' = [proc EXCEPT ![p] =
                         IF res.error
                         THEN [@ EXCEPT !.pc = "g_fail", !.err = "OpenAIError",
                                        !.anCalls = @ + 1,
                                        !.aiCalls = @ + res.calls,
                                        !.provider = "failed"]
                         ELSE [@ EXCEPT !.pc = "g_complete",
                                        !.brief.gpt_summary = res.summary,
                                        !.anCalls = @ + 1,
                                        !.aiCalls = @ + res.calls,
                                        !.provider = IF res.calls = 0 THEN "none"
                                                     ELSE IF provider_ok THEN "ok"
                                                     ELSE "failed"]]
           ELSE proc' = [proc EXCEPT ![p] =
                   [@ EXCEPT !.pc = "g_complete",
                             !.brief.gpt_summary = NoTrialsSummary(proc[p].topic, proc[p].run)]]
    /\ UNCHANGED <<db, trialsOf, runs, callers, registry, demo_mode, unitVars>>

\* brief.status = STATUS_COMPLETED; brief.save(); return brief
GenerateComplete(p) ==
    /\ proc[p].pc = "g_complete"
    /\ LET brief == CompletedBrief(proc[p].brief)
       IN  /\ db' = [db EXCEPT ![proc[p].bid] = brief]
           /\ proc' = [proc EXCEPT ![p] =
                 [@ EXCEPT !.pc = "idle", !.brief = brief, !.outcome = "returned"]]
    /\ UNCHANGED <<trialsOf, runs, callers, registry, demo_mode, unitVars>>

\* except Exception as e: status Failed, summary the message, save, raise
GenerateFail(p) ==
    /\ proc[p].pc = "g_fail"
    /\ LET brief == FailedBrief(proc[p].brief, proc[p].err, proc[p].run)
       IN  /\ db' = [db EXCEPT ![proc[p].bid] = brief]
           /\ proc' = [proc EXCEPT ![p] =
                 [@ EXCEPT !.pc = "idle", !.brief = brief, !.outcome = "raised"]]
    /\ UNCHANGED <<trialsOf, runs, callers, registry, demo_mode, unitVars>>

(***************************************************************************)
(* refresh_brief                                                           *)
(***************************************************************************)

\* The call on the stored Brief b and the guard on its status.
RefreshCall(p, b) ==
    /\ proc[p].pc = "idle"
    /\ runs < MaxRuns
    /\ db[b].exists
    /\ LET brief == db[b]
           call  == [IdleProc EXCEPT !.op = "refresh", !.run = runs + 1, !.bid = b,
                                     !.brief = brief, !.topic = brief.topic,
                                     !.pre = [brief |-> db[b], trials |-> trialsOf[b]]]
       IN  proc' = [proc EXCEPT ![p] =
              IF RefreshAccepted(brief)
              THEN [call EXCEPT !.pc = "r_mark"]
              ELSE [call EXCEPT !.pc = "idle", !.err = "ValueError",
                                !.outcome = "state_error"]]
    /\ runs' = runs + 1
    /\ UNCHANGED <<db, trialsOf, callers, registry, demo_mode, unitVars>>

\* original_status = brief.status; brief.status = GENERATING; brief.save()
RefreshMark(p) ==
    /\ proc[p].pc = "r_mark"
    /\ LET brief == MarkedBrief(proc[p].brief)
       IN  /\ db' = [db EXCEPT ![proc[p].bid] = brief]
           /\ proc' = [proc EXCEPT ![p] =
                 [@ EXCEPT !.pc = "r_clear", !.brief = brief,
                           !.original_status = proc[p].brief.status]]
    /\ UNCHANGED <<trialsOf, runs, callers, registry, demo_mode, unitVars>>

\* brief.trials.all().delete(); the search term is chosen
RefreshClear_off(p) ==
    /\ proc[p].pc = "r_clear"
    /\ trialsOf' = [b \in Briefs |-> <<>>]
    /\ proc' = [proc EXCEPT ![p] =
          [@ EXCEPT !.pc = "r_search", !.term = refresh_search_term(proc[p].brief)]]
    /\ UNCHANGED <<db, runs, callers, registry, demo_mode, unitVars>>
RefreshClear(p) ==
    /\ proc[p].pc = "r_clear"
    /\ trialsOf' = [trialsOf EXCEPT ![proc[p].bid] = ClearedTrials(@)]
    /\ proc' = [proc EXCEPT ![p] =
          [@ EXCEPT !.pc = "r_search", !.term = refresh_search_term(proc[p].brief)]]
    /\ UNCHANGED <<db, runs, callers, registry, demo_mode, unitVars>>

\* studies = api_client.search_studies(search_term)
RefreshSearch(p) ==
    /\ proc[p].pc = "r_search"
    /\ \E script \in registry :
        LET out == search_studies(script, OrchMaxResults)
        IN  proc' = [proc EXCEPT ![p] =
               IF out.error
               THEN [@ EXCEPT !.pc = "r_fail", !.err = "ClinicalTrialsAPIError",
                              !.sscript = script, !.regCalls = @ + 1,
                              !.queries = Append(@, proc[p].term)]
               ELSE [@ EXCEPT !.pc = "r_report", !.studies = out.studies,
                              !.sscript = script, !.regCalls = @ + 1,
                              !.queries = Append(@, proc[p].term)]]
    /\ UNCHANGED <<db, trialsOf, runs, callers, registry, demo_mode, unitVars>>

\* search_report = ...; brief.search_metadata = search_report (not saved)
RefreshReport(p) ==
    /\ proc[p].pc = "r_report"
    /\ \E script \in registry :
        LET rep == get_search_transparency_report(script, OrchMaxResults, proc[p].term)
        IN  proc' = [proc EXCEPT ![p] =
               IF rep.error
               THEN [@ EXCEPT !.pc = "r_fail", !.err = rep.e, !.regCalls = @ + 1,
                              !.queries = Append(@, proc[p].term)]
               ELSE [@ EXCEPT !.pc = "r_trials", !.brief.search_metadata = rep.report,
                              !.idx = 1, !.regCalls = @ + 1,
                              !.queries = Append(@, proc[p].term)]]
    /\ UNCHANGED <<db, trialsOf, runs, callers, registry, demo_mode, unitVars>>

\* one iteration of: for study in studies: create_trial_from_study(study, brief)
RefreshCreateTrial(p) ==
    /\ proc[p].pc = "r_trials"
    /\ proc[p].idx <= Len(proc[p].studies)
    /\ trialsOf' = [trialsOf EXCEPT ![proc[p].bid] =
                      create_trial_from_study(@, proc[p].studies[proc[p].idx], proc[p].run)]
    /\ proc' = [proc EXCEPT ![p].idx = @ + 1]
    /\ UNCHANGED <<db, runs, callers, registry, demo_mode, unitVars>>

\* trials = list(brief.trials.all()); the analysis or the no-trials text
RefreshAnalyze(p) ==
    /\ proc[p].pc = "r_trials"
    /\ proc[p].idx > Len(proc[p].studies)
    /\ LET rows == trialsOf[proc[p].bid]
       IN  IF rows # <<>>
           THEN \E provider_ok \in BOOLEAN :
                  LET res == analyze_trials(proc[p].brief.topic, rows, demo_mode,
                                            provider_ok, proc[p].run)
                  IN  proc' = [proc EXCEPT ![p] =
                         IF res.error
                         THEN [@ EXCEPT !.pc = "r_fail", !.err = "OpenAIError",
                                        !.anCalls = @ + 1,
                                        !.aiCalls = @ + res.calls,
                                        !.provider = "failed"]
                         ELSE [@ EXCEPT !.pc = "r_complete",
                                        !.brief.gpt_summary = res.summary,
                                        !.anCalls = @ + 1,
                                        !.aiCalls = @ + res.calls,
                                        !.provider = IF res.calls = 0 THEN "none"
                                                     ELSE IF provider_ok THEN "ok"
                                                     ELSE "failed"]]
           ELSE proc' = [proc EXCEPT ![p] =
                   [@ EXCEPT !.pc = "r_complete",
                             !.brief.gpt_summary =
                                 NoTrialsSummary(proc[p].brief.topic, proc[p].run)]]
    /\ UNCHANGED <<db, trialsOf, runs, callers, registry, demo_mode, unitVars>>

\* brief.status = STATUS_COMPLETED; brief.save(); return brief
RefreshComplete(p) ==
    /\ proc[p].pc = "r_complete"
    /\ LET brief == CompletedBrief(proc[p].brief)
       IN  /\ db' = [db EXCEPT ![proc[p].bid] = brief]
           /\ proc' = [proc EXCEPT ![p] =
                 [@ EXCEPT !.pc = "idle", !.brief = brief, !.outcome = "returned"]]
    /\ UNCHANGED <<trialsOf, runs, callers, registry, demo_mode, unitVars>>

\* except Exception as e: brief.status = original_status; brief.save(); raise
RefreshFail(p) ==
    /\ proc[p].pc = "r_fail"
    /\ LET brief == RestoredBrief(proc[p].brief, proc[p].original_status)
       IN  /\ db' = [db EXCEPT ![proc[p].bid] = brief]
           /\ proc' = [proc EXCEPT ![p] =
                 [@ EXCEPT !.pc = "idle", !.brief = brief, !.outcome = "raised"]]
    /\ UNCHANGED <<trialsOf, runs, callers, registry, demo_mode, unitVars>>

(***************************************************************************)
(* Trials handed to one _filter_relevant_trials call                       *)
(***************************************************************************)

\* Longest list of trials handed to the selector.
MaxTrials == 52

PhaseCodes == <<"PHASE1", "PHASE2", "PHASE3", "PHASE4", "", "NA">>

StartDates == << <<0>>, <<40>>, <<400>>, <<364>>, <<365>>, <<-30>>, NoDate >>

\* The ways the phases repeat along a list.
SelectorPatterns == {1, 2, 3, 6}

\* The i-th trial of a list of pattern k; equal rows occur within a list.
SelectorTrial(i, k) ==
    [nct_id |-> NctOfPage[(i % 2) + 1],
     phase |-> PhaseCodes[((i * k) % 6) + 1],
     start_date |-> StartDates[((i + k) % 7) + 1],
     run |-> 0]

SelectorInputs ==
    { [i \in 1..n |-> SelectorTrial(i, k)] : n \in 0..MaxTrials, k \in SelectorPatterns }

(***************************************************************************)
(* Specifications                                                          *)
(***************************************************************************)

vars == <<sScript, sMax, sOut, selIn, selOut, advIn, advOut, anOut, reqIn, reqOut,
          db, trialsOf, proc, runs, callers, registry, demo_mode>>

OrchIdle ==
    /\ db = [b \in Briefs |-> NoBrief]
    /\ trialsOf = [b \in Briefs |-> <<>>]
    /\ proc = [p \in Procs |-> IdleProc]
    /\ runs = 0

SearchIdle ==
    /\ sScript = <<>>
    /\ sMax = 0
    /\ sOut = Pending

SelectorIdle ==
    /\ selIn = <<>>
    /\ selOut = Pending

AdvancedIdle ==
    /\ advIn = Pending
    /\ advOut = Pending

AnalyzerIdle == anOut = Pending

RequestIdle ==
    /\ reqIn = <<>>
    /\ reqOut = Pending

\* One search_studies call against every scripted registry.
SearchInit ==
    /\ sScript \in SearchScripts
    /\ sMax \in MaxResultsChoices
    /\ sOut = Pending
    /\ SelectorIdle
    /\ AdvancedIdle
    /\ AnalyzerIdle
    /\ RequestIdle
    /\ OrchIdle
    /\ callers = {}
    /\ registry = {}
    /\ demo_mode = TRUE

RunSearch ==
    /\ sOut = Pending
    /\ sScript # <<>>
    /\ sOut' = search_studies(sScript, sMax)
    /\ UNCHANGED <<sScript, sMax, selIn, selOut, advIn, advOut, anOut, reqIn, reqOut>>
    /\ UNCHANGED orchVars

SpecSearch == SearchInit /\ [][RunSearch]_vars

\* One _filter_relevant_trials call on every list of trials.
SelectorInit ==
    /\ selIn \in SelectorInputs
    /\ selOut = Pending
    /\ SearchIdle
    /\ AdvancedIdle
    /\ AnalyzerIdle
    /\ RequestIdle
    /\ OrchIdle
    /\ callers = {}
    /\ registry = {}
    /\ demo_mode = FALSE

RunSelector ==
    /\ selOut = Pending
    /\ selOut' = [trials |-> filter_relevant_trials(selIn)]
    /\ UNCHANGED <<sScript, sMax, sOut, selIn, advIn, advOut, anOut, reqIn, reqOut>>
    /\ UNCHANGED orchVars

SpecSelector == SelectorInit /\ [][RunSelector]_vars

\* Number of HTTP attempts whose outcome a request behaviour fixes.
ScriptedAttempts == 4

RequestBehaviours == [1..ScriptedAttempts -> {"ok", "timeout", "error"}]

\* One _make_request call against every request behaviour.
RequestInit ==
    /\ reqIn \in RequestBehaviours
    /\ reqOut = Pending
    /\ SearchIdle
    /\ SelectorIdle
    /\ AdvancedIdle
    /\ AnalyzerIdle
    /\ OrchIdle
    /\ callers = {}
    /\ registry = {}
    /\ demo_mode = FALSE

RunRequest ==
    /\ reqOut = Pending
    /\ reqIn # <<>>
    /\ reqOut' = MakeRequest(LeadingFailures(reqIn))
    /\ UNCHANGED <<sScript, sMax, sOut, selIn, selOut, advIn, advOut, anOut, reqIn>>
    /\ UNCHANGED orchVars

SpecRequest == RequestInit /\ [][RunRequest]_vars

\* The arguments of search_studies_advanced and the registry behaviour the
\* call meets.
AdvancedInputs ==
    [condition : {"", "c1"}, intervention : {"", "i1"}, operator : {"AND", "OR"},
     include_observational : BOOLEAN, script : OrchScripts]

\* One search_studies_advanced call on every combination of arguments.
AdvancedInit ==
    /\ advIn \in AdvancedInputs
    /\ advOut = Pending
    /\ SearchIdle
    /\ SelectorIdle
    /\ AnalyzerIdle
    /\ RequestIdle
    /\ OrchIdle
    /\ callers = {}
    /\ registry = {}
    /\ demo_mode = FALSE

RunAdvanced ==
    /\ advOut = Pending
    /\ advIn # Pending
    /\ advOut' = search_studies_advanced(advIn.condition, advIn.intervention,
                                         advIn.operator, advIn.include_observational,
                                         advIn.script, OrchMaxResults)
    /\ UNCHANGED <<sScript, sMax, sOut, selIn, selOut, advIn, anOut, reqIn, reqOut>>
    /\ UNCHANGED orchVars

SpecAdvanced == AdvancedInit /\ [][RunAdvanced]_vars

Init ==
    /\ SearchIdle
    /\ SelectorIdle
    /\ AdvancedIdle
    /\ AnalyzerIdle
    /\ RequestIdle
    /\ OrchIdle
    /\ callers = {"p1"}
    /\ registry = OrchScripts
    /\ demo_mode \in BOOLEAN

Step(p) ==
    \/ \E search_term \in SearchTerms, display_topic \in DisplayTopics :
          GenerateCall(p, search_term, display_topic)
    \/ GenerateSearch(p)
    \/ GenerateReport(p)
    \/ GenerateCreateTrial(p)
    \/ GenerateAnalyze(p)
    \/ GenerateComplete(p)
    \/ GenerateFail(p)
    \/ \E b \in Briefs : RefreshCall(p, b)
    \/ RefreshMark(p)
    \/ RefreshClear(p)
    \/ RefreshSearch(p)
    \/ RefreshReport(p)
    \/ RefreshCreateTrial(p)
    \/ RefreshAnalyze(p)
    \/ RefreshComplete(p)
    \/ RefreshFail(p)

Next == \E p \in callers : Step(p)

\* Calls made one after the other by a single caller.
Spec == Init /\ [][Next]_vars

InitConc ==
    /\ SearchIdle
    /\ SelectorIdle
    /\ AdvancedIdle
    /\ AnalyzerIdle
    /\ RequestIdle
    /\ OrchIdle
    /\ callers = Procs
    /\ registry = ConcScripts
    /\ demo_mode = FALSE

\* Calls of two callers, interleaved step by step, in live mode.
SpecConc == InitConc /\ [][Next]_vars

\* Number of records of a registry answer larger than the selector's cap.
LargeAnswer == 51

LargeStudies == [j \in 1..LargeAnswer |-> Study("NCT" \o ToString(100 + j), "none")]

\* The registry behaviours of a large answer: down, and one page of
\* LargeAnswer identifiable records.
LargeScripts ==
    { <<Page(max_retries, <<>>, FALSE)>>,
      <<Page(0, LargeStudies, FALSE)>> }

InitLarge ==
    /\ SearchIdle
    /\ SelectorIdle
    /\ AdvancedIdle
    /\ AnalyzerIdle
    /\ RequestIdle
    /\ OrchIdle
    /\ callers = {"p1"}
    /\ registry = LargeScripts
    /\ demo_mode = FALSE

\* Calls made one after the other by a single caller, in live mode, against
\* a registry with a large answer.
SpecLarge == InitLarge /\ [][Next]_vars

\* A Brief as generate("q1", display_topic = "t1") leaves it in live mode
\* when the registry answers with the one study NCT1.
StoredBrief ==
    [exists |-> TRUE, topic |-> "t1", status |-> STATUS_COMPLETED,
     gpt_summary |-> AnalysisSummary("t1", <<"NCT1">>, 0),
     search_metadata |-> [present |-> TRUE, query |-> "q1", total_results |-> 1,
                          total_analyzed |-> 1]]

\* The registry behaviours met on that store: down, and one study.
StoredScripts ==
    { <<Page(max_retries, <<>>, FALSE)>>,
      <<Page(0, <<StudyB>>, FALSE)>> }

InitStored ==
    /\ SearchIdle
    /\ SelectorIdle
    /\ AdvancedIdle
    /\ AnalyzerIdle
    /\ RequestIdle
    /\ db = [b \in Briefs |-> IF b = 1 THEN StoredBrief ELSE NoBrief]
    /\ trialsOf = [b \in Briefs |-> IF b = 1 THEN <<Trial("NCT1", 0)>> ELSE <<>>]
    /\ proc = [p \in Procs |-> IdleProc]
    /\ runs = 0
    /\ callers = Procs
    /\ registry = StoredScripts
    /\ demo_mode = FALSE

\* Calls of two callers, interleaved step by step, in live mode, on a store
\* that holds a Completed Brief.
SpecStored == InitStored /\ [][Next]_vars

\* The registry behaviours met while the analyzer is also called directly:
\* no study, and one study.
AnalyzerScripts ==
    { <<Page(0, <<>>, FALSE)>>,
      <<Page(0, <<StudyA>>, FALSE)>> }

\* The lists of trials handed to a direct analyze_trials call.
AnalyzerInputs ==
    { <<>>, <<Trial("NCT1", 0)>>, <<Trial("NCT1", 0), Trial("NCT2", 0)>> }

\* AIAnalyzer().analyze_trials(topic, trials), called directly
AnalyzerCall ==
    /\ anOut = Pending
    /\ \E rows \in AnalyzerInputs, provider_ok \in BOOLEAN :
          anOut' = [rows |-> rows,
                    res |-> analyze_trials("t1", rows, demo_mode, provider_ok, 0)]
    /\ UNCHANGED <<sScript, sMax, sOut, selIn, selOut, advIn, advOut, reqIn, reqOut>>
    /\ UNCHANGED orchVars

InitAnalyzer ==
    /\ SearchIdle
    /\ SelectorIdle
    /\ AdvancedIdle
    /\ AnalyzerIdle
    /\ RequestIdle
    /\ OrchIdle
    /\ callers = {"p1"}
    /\ registry = AnalyzerScripts
    /\ demo_mode \in BOOLEAN

NextAnalyzer == Next \/ AnalyzerCall

\* Calls made one after the other by a single caller, and one direct call
\* of the analyzer at any moment.
SpecAnalyzer == InitAnalyzer /\ [][NextAnalyzer]_vars

(***************************************************************************)
(* Properties                                                              *)
(***************************************************************************)

Terminal == {STATUS_COMPLETED, STATUS_FAILED}

\* The call of p has ended, by return or by raise.
Ended(p) == proc[p].pc = "idle" /\ proc[p].op # "none"

\* The refresh of p passed the guard and has ended.
RefreshEnded(p) ==
    Ended(p) /\ proc[p].op = "refresh" /\ proc[p].outcome \in {"returned", "raised"}

\* C1: once every generate and refresh call has returned or raised, no Brief
\* is persisted as Generating; a generate leaves its Brief Completed or
\* Failed, a refresh that passed the guard leaves it Completed or in its
\* pre-refresh status.
ThmC1 ==
    (\A p \in Procs : proc[p].pc = "idle") =>
        /\ \A b \in Briefs : db[b].exists => db[b].status # STATUS_GENERATING
        /\ \A p \in Procs :
            /\ proc[p].op = "generate" => db[proc[p].bid].status \in Terminal
            /\ RefreshEnded(p) =>
                  db[proc[p].bid].status \in {STATUS_COMPLETED, proc[p].pre.brief.status}

WitC1 ==
    /\ runs >= 2
    /\ \A p \in Procs : proc[p].pc = "idle"
    /\ proc["p1"].op = "generate"
    /\ Ended("p1")
    /\ proc["p1"].outcome = "raised"

\* C2: after a refresh that raised from the pipeline, the persisted status
\* is the status the Brief had when the refresh was called.
ThmC2 ==
    \A p \in Procs :
        RefreshEnded(p) /\ proc[p].outcome = "raised" =>
            db[proc[p].bid].status = proc[p].pre.brief.status

WitC2 ==
    /\ RefreshEnded("p1")
    /\ proc["p1"].outcome = "raised"
    /\ proc["p1"].pre.brief.status = STATUS_COMPLETED

\* C3: after a refresh that raised from the pipeline, the Brief row and its
\* Trials equal what they were when the refresh was called.
CexC3 ==
    \A p \in Procs :
        RefreshEnded(p) /\ proc[p].outcome = "raised" =>
            /\ db[proc[p].bid] = proc[p].pre.brief
            /\ trialsOf[proc[p].bid] = proc[p].pre.trials

\* C4: a refresh called on a Brief persisted as Generating raises the state
\* error in that very step, changes no Brief row and no Trial, and makes no
\* registry search and no provider call.
ThmC4 ==
    [][ \A p \in Procs, b \in Briefs :
          ( /\ proc[p].pc = "idle"
            /\ proc'[p].run = runs + 1
            /\ proc'[p].op = "refresh"
            /\ proc'[p].bid = b
            /\ db[b].status = STATUS_GENERATING )
          => /\ proc'[p].pc = "idle"
             /\ proc'[p].outcome = "state_error"
             /\ proc'[p].regCalls = 0
             /\ proc'[p].aiCalls = 0
             /\ db' = db
             /\ trialsOf' = trialsOf ]_vars

WitC4 ==
    \E p \in Procs :
        /\ proc[p].op = "refresh"
        /\ proc[p].outcome = "state_error"
        /\ proc[p].pre.brief.status = STATUS_GENERATING
        /\ proc[p].pre.trials # <<>>

\* C5: a refresh called on a Completed or Failed Brief is not rejected; once
\* it is past its first save the Brief is persisted as Generating, and when
\* the registry search starts the Brief has no Trial.
ThmC5 ==
    \A p \in Procs :
        proc[p].op = "refresh" /\ proc[p].pre.brief.status \in Terminal =>
            /\ proc[p].outcome # "state_error"
            /\ proc[p].pc \in {"r_clear", "r_search", "r_report", "r_trials",
                               "r_complete", "r_fail"}
                  => db[proc[p].bid].status = STATUS_GENERATING
            /\ proc[p].pc = "r_search" => trialsOf[proc[p].bid] = <<>>

WitC5 ==
    /\ proc["p1"].op = "refresh"
    /\ proc["p1"].pc = "r_search"
    /\ proc["p1"].pre.brief.status = STATUS_FAILED
    /\ proc["p1"].pre.trials # <<>>

\* The Trials a list of raw studies gives: one per study that is well
\* formed and carries an identifier, in order.
RECURSIVE ExpectedTrials(_, _)
ExpectedTrials(studies, run) ==
    IF studies = <<>> THEN <<>>
    ELSE LET s == Head(studies)
         IN  (IF s.nct # "" /\ s.defect = "none"
              THEN <<[nct_id |-> s.nct, phase |-> "", start_date |-> <<>>,
                      run |-> run]>>
              ELSE <<>>)
             \o ExpectedTrials(Tail(studies), run)

\* C6: after a refresh that returned, the Brief is Completed, its summary
\* was written by this call over this call's Trials, and its Trials are
\* exactly those of this call's fetched studies.
ThmC6 ==
    \A p \in Procs :
        RefreshEnded(p) /\ proc[p].outcome = "returned" =>
            LET b == proc[p].bid
                expected == ExpectedTrials(proc[p].studies, proc[p].run)
            IN  /\ db[b].status = STATUS_COMPLETED
                /\ db[b].gpt_summary.run = proc[p].run
                /\ db[b].gpt_summary.kind =
                      (IF expected = <<>> THEN "notrials" ELSE "analysis")
                /\ Len(db[b].gpt_summary.over) = Len(expected)
                /\ trialsOf[b] = expected
                /\ \A i \in 1..Len(trialsOf[b]) : trialsOf[b][i].run = proc[p].run

WitC6 ==
    /\ RefreshEnded("p1")
    /\ proc["p1"].outcome = "returned"
    /\ proc["p1"].pre.trials # <<>>
    /\ trialsOf[proc["p1"].bid] # <<>>
    /\ proc["p1"].pre.brief.gpt_summary.kind = "analysis"

\* C7: a generate in which a step raised ends by raising, with the Brief
\* persisted as Failed and the raised error's message as its summary.
ThmC7 ==
    \A p \in Procs :
        Ended(p) /\ proc[p].op = "generate" /\ proc[p].err # "" =>
            /\ proc[p].outcome = "raised"
            /\ db[proc[p].bid].status = STATUS_FAILED
            /\ db[proc[p].bid].gpt_summary.kind = "error"
            /\ db[proc[p].bid].gpt_summary.msg = proc[p].err

WitC7 ==
    /\ Ended("p1")
    /\ proc["p1"].op = "generate"
    /\ proc["p1"].err = "OpenAIError"
    /\ trialsOf[proc["p1"].bid] # <<>>

\* C8: a Brief row appears as Generating without Trials; its status leaves
\* Generating only in the step that ends an attempt on it, every attempt's
\* last step takes it from Generating to Completed or Failed, and a
\* terminal status changes only back to Generating.
ThmC8 ==
    [][ \A b \in Briefs :
          /\ (~db[b].exists /\ db'[b].exists) =>
                db'[b].status = STATUS_GENERATING /\ trialsOf'[b] = <<>>
          /\ (db[b].exists /\ db[b].status = STATUS_GENERATING
                /\ db'[b].status # STATUS_GENERATING) =>
                /\ db'[b].status \in Terminal
                /\ \E p \in Procs : /\ proc[p].bid = b
                                    /\ proc[p].pc # "idle"
                                    /\ proc'[p].pc = "idle"
          /\ \A p \in Procs :
                (proc[p].bid = b /\ proc[p].pc # "idle" /\ proc'[p].pc = "idle") =>
                    db[b].status = STATUS_GENERATING /\ db'[b].status \in Terminal
          /\ (db[b].exists /\ db[b].status \in Terminal
                /\ db'[b].status # db[b].status) =>
                db'[b].status = STATUS_GENERATING ]_vars

WitC8 ==
    \E b, c \in Briefs :
        /\ db[b].exists /\ db[b].status = STATUS_FAILED
        /\ db[c].exists /\ db[c].status = STATUS_COMPLETED
        /\ \A p \in Procs : proc[p].pc = "idle"

\* The Brief's summary has been stored.
SummarySet(b) == db[b].gpt_summary.kind # "blank"

\* The Brief's trial fetch is over: a search report is stored and no call
\* is between its registry search and the end of its record loop.
FetchConcluded(b) ==
    /\ db[b].search_metadata.present
    /\ \A p \in Procs :
          proc[p].bid = b =>
              proc[p].pc \notin {"g_search", "g_report", "g_trials",
                                 "r_search", "r_report", "r_trials"}

\* C9 as stated: a Brief is Completed exactly when its summary is set and
\* its trial fetch has concluded.
CexC9 ==
    \A b \in Briefs :
        db[b].exists =>
            (db[b].status = STATUS_COMPLETED <=> (SummarySet(b) /\ FetchConcluded(b)))

\* C9 amended: a Completed Brief has its summary set and its trial fetch
\* concluded.
ThmC9 ==
    \A b \in Briefs :
        db[b].exists /\ db[b].status = STATUS_COMPLETED =>
            SummarySet(b) /\ FetchConcluded(b)

WitC9 ==
    \E b \in Briefs :
        /\ db[b].exists
        /\ db[b].status = STATUS_COMPLETED
        /\ db[b].gpt_summary.kind = "notrials"

\* Number of studies on the first i pages of a script.
RECURSIVE StudiesThrough(_, _)
StudiesThrough(script, i) ==
    IF i = 0 THEN 0 ELSE StudiesThrough(script, i - 1) + Len(script[i].studies)

\* After page i the search has no reason to stop: the page was fetched, is
\* not empty, carries a token and leaves the count below the maximum.
GoesOn(script, i, maximum) ==
    /\ script[i].fails < 3
    /\ script[i].studies # <<>>
    /\ script[i].token
    /\ StudiesThrough(script, i) < maximum

\* C10: with pages of at most 100 studies, search_studies requests at most
\* 5 pages, requests a page only when no earlier page gave a reason to
\* stop, requests a further page unless the last one gave a reason or was
\* the fifth, and returns at most max(configured maximum, 500) studies.
ThmC10 ==
    sOut # Pending =>
        /\ sOut.fetches \in 1..5
        /\ \A i \in 1..(sOut.fetches - 1) : GoesOn(sScript, i, sMax)
        /\ sOut.fetches < 5 => ~GoesOn(sScript, sOut.fetches, sMax)
        /\ Len(sOut.studies) <= Max(sMax, 500)

WitC10 ==
    /\ sOut # Pending
    /\ ~sOut.error
    /\ sMax = 250
    /\ sOut.fetches = 3
    /\ Len(sOut.studies) = 300

\* The studies of the first i pages of a script, in page order.
RECURSIVE PagesThrough(_, _)
PagesThrough(script, i) ==
    IF i = 0 THEN <<>> ELSE PagesThrough(script, i - 1) \o script[i].studies

\* C11: when the last page search_studies requested failed on all 3
\* attempts, the call raised and returned nothing if that page was the
\* first, and otherwise returned without raising exactly the studies of the
\* pages before it, in page order.
ThmC11 ==
    (sOut # Pending /\ PageAt(sScript, sOut.fetches).fails >= 3) =>
        /\ sOut.fetches = 1 => (sOut.error /\ sOut.studies = <<>>)
        /\ sOut.fetches > 1 =>
              /\ ~sOut.error
              /\ sOut.studies = PagesThrough(sScript, sOut.fetches - 1)

WitC11 ==
    /\ sOut # Pending
    /\ sOut.fetches = 3
    /\ sScript[3].fails >= 3
    /\ ~sOut.error
    /\ Len(sOut.studies) = 101

\* C12: every persisted Trial has a non-empty nct_id.
ThmC12 ==
    \A b \in Briefs :
        \A i \in 1..Len(trialsOf[b]) : trialsOf[b][i].nct_id # ""

WitC12 ==
    /\ proc["p1"].op = "refresh"
    /\ proc["p1"].pc = "r_trials"
    /\ \E i \in 1..Len(proc["p1"].studies) :
          /\ i < proc["p1"].idx
          /\ proc["p1"].studies[i].nct = ""
    /\ trialsOf[proc["p1"].bid] # <<>>

\* A registry answer without its records whose field extraction raises.
Strip(script) ==
    [i \in 1..Len(script) |->
        [script[i] EXCEPT !.studies =
            SelectSeq(script[i].studies, LAMBDA st : st.defect = "none")]]

\* C13: a record whose field extraction raises changes nothing but its own
\* Trial: a generate that ended Failed on its registry search would have
\* failed there on the same answer without such records, and a generate or
\* refresh that returned has persisted the Trials of that answer without
\* such records.
CexC13 ==
    \A p \in Procs :
        (Ended(p) /\ proc[p].regCalls >= 1) =>
            LET clean == search_studies(Strip(proc[p].sscript), OrchMaxResults)
            IN  /\ ( /\ proc[p].op = "generate"
                     /\ proc[p].regCalls = 1
                     /\ db[proc[p].bid].status = STATUS_FAILED ) => clean.error
                /\ proc[p].outcome = "returned" =>
                      trialsOf[proc[p].bid] = ExpectedTrials(clean.studies, proc[p].run)

\* Number of studies of a list that satisfy a condition.
CountWhere(studies, Cond(_)) == Cardinality({i \in 1..Len(studies) : Cond(studies[i])})

\* The summary the pipeline stores over a list of Trials.
SummaryOver(topic, rows, run) ==
    IF rows = <<>> THEN NoTrialsSummary(topic, run)
    ELSE IF demo_mode THEN DemoSummary(topic, NctIds(rows), run)
    ELSE AnalysisSummary(topic, NctIds(filter_relevant_trials(rows)), run)

\* C14 as stated: after a generate that returned, the Brief has as many
\* Trials as the search returned records with an identifier, and its summary
\* is computed over exactly those Trials.
CexC14 ==
    \A p \in Procs :
        (Ended(p) /\ proc[p].op = "generate" /\ proc[p].outcome = "returned") =>
            /\ Len(trialsOf[proc[p].bid]) =
                  CountWhere(proc[p].studies, LAMBDA st : st.nct # "")
            /\ db[proc[p].bid].gpt_summary.over = NctIds(trialsOf[proc[p].bid])

\* C14 amended: after a generate that returned, the Brief's Trials are those
\* of the returned records that carry an identifier and whose extraction
\* raises nothing, in order, and its summary is the one this call computed
\* over those Trials: the no-trials text when there are none, the local
\* narrative over all of them in demo mode, the provider's text over the
\* selector's choice among them in live mode.
ThmC14 ==
    \A p \in Procs :
        (Ended(p) /\ proc[p].op = "generate" /\ proc[p].outcome = "returned") =>
            LET b == proc[p].bid
            IN  /\ Len(trialsOf[b]) =
                      CountWhere(proc[p].studies,
                                 LAMBDA st : st.nct # "" /\ st.defect = "none")
                /\ trialsOf[b] = ExpectedTrials(proc[p].studies, proc[p].run)
                /\ db[b].gpt_summary = SummaryOver(proc[p].topic, trialsOf[b], proc[p].run)

WitC14 ==
    /\ Ended("p1")
    /\ proc["p1"].op = "generate"
    /\ proc["p1"].outcome = "returned"
    /\ Len(proc["p1"].studies) = 3
    /\ CountWhere(proc["p1"].studies, LAMBDA st : st.nct = "") = 1
    /\ Len(trialsOf[proc["p1"].bid]) = 2
    /\ Len(db[proc["p1"].bid].gpt_summary.over) = 2

\* C15: every query a refresh sends to the registry carries the query of
\* the search_metadata the Brief had when the refresh was called, or the
\* Brief's topic when it had no search_metadata.
ThmC15 ==
    \A p \in Procs :
        proc[p].op = "refresh" =>
            \A i \in 1..Len(proc[p].queries) :
                proc[p].queries[i] =
                    (IF proc[p].pre.brief.search_metadata.present
                     THEN proc[p].pre.brief.search_metadata.query
                     ELSE proc[p].pre.brief.topic)

WitC15 ==
    /\ proc["p1"].op = "refresh"
    /\ Len(proc["p1"].queries) = 2
    /\ proc["p1"].pre.brief.search_metadata.present
    /\ proc["p1"].pre.brief.search_metadata.query # proc["p1"].pre.brief.topic

\* Number of times a row occurs in a list.
Occurrences(rows, x) == Cardinality({i \in 1..Len(rows) : rows[i] = x})

\* C16: the selector returns at most 50 trials, each of them a trial of the
\* input and none more often than the input has it; from an input of at
\* most 50 trials it returns every trial as often as the input has it.
ThmC16 ==
    selOut # Pending =>
        LET out == selOut.trials
        IN  /\ Len(out) <= 50
            /\ \A i \in 1..Len(out) :
                  /\ \E j \in 1..Len(selIn) : selIn[j] = out[i]
                  /\ Occurrences(out, out[i]) <= Occurrences(selIn, out[i])
            /\ Len(selIn) <= 50 =>
                  /\ Len(out) = Len(selIn)
                  /\ \A j \in 1..Len(selIn) :
                        Occurrences(out, selIn[j]) = Occurrences(selIn, selIn[j])

WitC16 ==
    /\ selOut # Pending
    /\ Len(selIn) = 52
    /\ Len(selOut.trials) = 50
    /\ selOut.trials # SubSeq(selIn, 1, 50)
    /\ \E i, j \in 1..52 : i # j /\ selIn[i] = selIn[j]

\* C17: a call whose provider call failed is in live mode, has raised
\* OpenAIError out of analyze_trials and holds no narrative of its own; a
\* generate that ended on OpenAIError or on ClinicalTrialsAPIError has raised
\* and left the Brief Failed with that error's message as summary.
ThmC17 ==
    \A p \in Procs :
        /\ proc[p].provider = "failed" =>
              /\ ~demo_mode
              /\ proc[p].err = "OpenAIError"
              /\ proc[p].pc \in {"g_fail", "r_fail", "idle"}
              /\ ~( /\ proc[p].brief.gpt_summary.kind = "analysis"
                    /\ proc[p].brief.gpt_summary.run = proc[p].run )
        /\ ( /\ Ended(p)
             /\ proc[p].op = "generate"
             /\ proc[p].err \in {"OpenAIError", "ClinicalTrialsAPIError"} ) =>
              /\ proc[p].outcome = "raised"
              /\ db[proc[p].bid].status = STATUS_FAILED
              /\ db[proc[p].bid].gpt_summary.kind = "error"
              /\ db[proc[p].bid].gpt_summary.msg = proc[p].err
              /\ db[proc[p].bid].gpt_summary.run = proc[p].run

WitC17 ==
    /\ ~demo_mode
    /\ Ended("p1")
    /\ proc["p1"].op = "generate"
    /\ proc["p1"].provider = "failed"
    /\ proc["p1"].aiCalls = 1
    /\ db[proc["p1"].bid].status = STATUS_FAILED

\* In demo mode no call reaches the provider or raises OpenAIError.
DemoNeverLive ==
    demo_mode =>
        \A p \in Procs :
            /\ proc[p].aiCalls = 0
            /\ proc[p].provider = "none"
            /\ proc[p].err # "OpenAIError"

ThmC19 ==
    /\ (anOut # Pending /\ anOut.rows = <<>>) =>
          /\ ~anOut.res.error
          /\ anOut.res.summary.kind = "notrials"
          /\ anOut.res.calls = 0
          /\ ~anOut.res.selected
    /\ \A p \in Procs :
          ( /\ proc[p].pc \in {"g_complete", "r_complete", "idle"}
            /\ proc[p].outcome \in {"none", "returned"}
            /\ proc[p].op # "none"
            /\ trialsOf[proc[p].bid] = <<>> ) =>
              /\ proc[p].brief.gpt_summary = NoTrialsSummary(proc[p].topic, proc[p].run)
              /\ proc[p].anCalls = 0
              /\ proc[p].aiCalls = 0
              /\ Ended(p) => /\ db[proc[p].bid].status = STATUS_COMPLETED
                              /\ db[proc[p].bid].gpt_summary.kind = "notrials"

WitC19 ==
    /\ ~demo_mode
    /\ anOut # Pending
    /\ anOut.rows = <<>>
    /\ RefreshEnded("p1")
    /\ proc["p1"].outcome = "returned"
    /\ proc["p1"].pre.trials # <<>>
    /\ trialsOf[proc["p1"].bid] = <<>>

\* The query of an advanced search, case by case.
ComposedQuery(a) ==
    LET c    == <<"AREA[ConditionSearch]", a.condition>>
        i    == <<"AREA[InterventionSearch]", a.intervention>>
        both == c \o <<" ", a.operator, " ">> \o i
        q    == IF a.intervention = "" THEN c ELSE IF a.condition = "" THEN i ELSE both
    IN  IF a.include_observational THEN q
        ELSE <<"(">> \o q \o <<") AND AREA[StudyType]Interventional">>

\* C20: an advanced search with neither term raises ValueError without a
\* search_studies call and without an HTTP request; with a term it makes
\* exactly one search_studies call, on the composed query, and its outcome
\* is that call's.
ThmC20 ==
    advOut # Pending =>
        IF advIn.condition = "" /\ advIn.intervention = ""
        THEN /\ advOut.error = "ValueError"
             /\ advOut.calls = 0
             /\ advOut.http = 0
        ELSE LET out == search_studies(advIn.script, OrchMaxResults)
             IN  /\ advOut.error # "ValueError"
                 /\ advOut.calls = 1
                 /\ advOut.query = ComposedQuery(advIn)
                 /\ advOut.http = out.http
                 /\ advOut.studies = out.studies
                 /\ (advOut.error = "ClinicalTrialsAPIError") = out.error

WitC20 ==
    /\ advOut # Pending
    /\ advIn.condition = ""
    /\ advIn.intervention = ""
    /\ advIn.script[1].studies # <<>>
    /\ advOut.error = "ValueError"

\* A refresh that is past its first save and has not ended.
InRefreshRun(p) ==
    /\ proc[p].op = "refresh"
    /\ proc[p].pc \in {"r_clear", "r_search", "r_report", "r_trials", "r_complete", "r_fail"}

\* C21 as stated: no two refresh runs on the same Brief are past their first
\* save at the same time.
CexC21 ==
    \A p, q \in Procs :
        (p # q /\ InRefreshRun(p) /\ InRefreshRun(q)) => proc[p].bid # proc[q].bid

\* C21 amended: a refresh called on a Brief that another refresh run holds
\* persisted as Generating raises the state error in that step and changes
\* no Brief row and no Trial.
ThmC21 ==
    [][ \A p, q \in Procs :
          ( /\ p # q
            /\ InRefreshRun(p)
            /\ db[proc[p].bid].status = STATUS_GENERATING
            /\ proc[q].pc = "idle"
            /\ proc'[q].run = runs + 1
            /\ proc'[q].op = "refresh"
            /\ proc'[q].bid = proc[p].bid )
          => /\ proc'[q].pc = "idle"
             /\ proc'[q].outcome = "state_error"
             /\ db' = db
             /\ trialsOf' = trialsOf ]_vars

WitC21 ==
    \E p, q \in Procs :
        /\ p # q
        /\ InRefreshRun(p)
        /\ proc[q].op = "refresh"
        /\ proc[q].outcome = "state_error"
        /\ proc[q].bid = proc[p].bid
        /\ proc[q].run > proc[p].run

\* C22: _make_request makes at most 3 attempts, one more than the attempts
\* that failed before it unless those were 3; it waits 1 before attempt 2
\* and 2 before attempt 3 and at no other moment; it returns on the first
\* attempt that succeeds and raises when the third attempt fails.
ThmC22 ==
    reqOut # Pending =>
        /\ reqOut.attempts \in 1..3
        /\ \A k \in 1..(reqOut.attempts - 1) : reqIn[k] # "ok"
        /\ reqOut.ok = (reqIn[reqOut.attempts] = "ok")
        /\ ~reqOut.ok => reqOut.attempts = 3
        /\ reqOut.slept = SubSeq(<<1, 2>>, 1, reqOut.attempts - 1)

WitC22 ==
    /\ reqOut # Pending
    /\ reqIn = <<"timeout", "error", "timeout", "ok">>
    /\ ~reqOut.ok
    /\ reqOut.slept = <<1, 2>>

\* C23: every registry query of a refresh is the search term of the generate
\* that created the Brief, never its display topic, whether that generate
\* ended Completed or Failed.
CexC23 ==
    \A p \in Procs :
        proc[p].op = "refresh" =>
            \A i \in 1..Len(proc[p].queries) : proc[p].queries[i] \in SearchTerms

\* C24: a generate or refresh that reached its registry search has searched
\* the registry once when it ends, and when it returned the persisted
\* search_metadata.total_results is the number of raw records it handed to
\* the normalizer.
CexC24 ==
    \A p \in Procs :
        (Ended(p) /\ proc[p].regCalls >= 1) =>
            /\ proc[p].regCalls = 1
            /\ proc[p].outcome = "returned" =>
                  db[proc[p].bid].search_metadata.total_results = Len(proc[p].studies)

\* C25: the recency weight of every trial the selector scored lies in [0,1]
\* (0..365 in units of 1/365), is 0 for a start date 365 or more days old
\* and for an unknown one, and so no score exceeds the trial's phase weight
\* by more than 1.
CexC25 ==
    selOut # Pending =>
        \A i \in 1..Len(selIn) :
            /\ recency_score(selIn[i]) \in 0..365
            /\ days_old(selIn[i]) >= 365 => recency_score(selIn[i]) = 0
            /\ trial_score(selIn[i]) <= (phase_priority(selIn[i].phase) + 1) * 365

\* C26: the analysis of the sample records decides no outcome: a generate or
\* refresh whose registry search raised met a first page it could not
\* fetch, and no call ends on an error of the field analysis.
CexC26 ==
    \A p \in Procs :
        Ended(p) =>
            /\ (proc[p].regCalls = 1 /\ proc[p].err = "ClinicalTrialsAPIError") =>
                  ~MakeRequest(PageAt(proc[p].sscript, 1).fails).ok
            /\ proc[p].err # "AttributeError"

\* The call of p is in progress.
InRun(p) == proc[p].pc # "idle"

\* C27: every step that changes the row or the Trials of a Brief is a step
\* of a call on that very Brief: a call on one Brief leaves the status,
\* summary, search_metadata and Trials of every other Brief as they were,
\* also when calls on different Briefs are interleaved.
ThmC27 ==
    [][ \A b \in Briefs :
          (db'[b] # db[b] \/ trialsOf'[b] # trialsOf[b]) =>
              \E p \in Procs : proc'[p] # proc[p] /\ proc'[p].bid = b ]_vars

WitC27 ==
    \E p, q \in Procs :
        /\ InRun(p) /\ proc[p].op = "refresh"
        /\ InRun(q) /\ proc[q].op = "generate"
        /\ proc[p].bid # proc[q].bid
        /\ proc[p].pc = "r_search"
        /\ trialsOf[proc[p].bid] = <<>>
        /\ trialsOf[proc[q].bid] # <<>>

\* C28: the analysis step of a generate or refresh leaves every persisted
\* Trial as it is, and a generate that returned over more than 50
\* identifiable records has persisted one Trial for each of them, while its
\* summary covers 50.
ThmC28 ==
    /\ [](\A p \in Procs :
            ( /\ Ended(p)
              /\ proc[p].op = "generate"
              /\ proc[p].outcome = "returned"
              /\ Len(proc[p].studies) > 50 ) =>
                /\ trialsOf[proc[p].bid] = ExpectedTrials(proc[p].studies, proc[p].run)
                /\ Len(trialsOf[proc[p].bid]) = Len(proc[p].studies)
                /\ Len(db[proc[p].bid].gpt_summary.over) = 50)
    /\ [][ \A p \in Procs :
            ( /\ proc[p].pc \in {"g_trials", "r_trials"}
              /\ proc'[p].pc \in {"g_complete", "g_fail", "r_complete", "r_fail"} ) =>
                trialsOf' = trialsOf ]_vars

WitC28 ==
    \E p \in Procs :
        /\ Ended(p)
        /\ proc[p].op = "generate"
        /\ proc[p].outcome = "returned"
        /\ Len(trialsOf[proc[p].bid]) = LargeAnswer
        /\ LargeAnswer > 50
        /\ db[proc[p].bid].status = STATUS_COMPLETED
        /\ db[proc[p].bid].gpt_summary.mode = "live"
        /\ Len(db[proc[p].bid].gpt_summary.over) = 50

\* C29: every search_studies call ends, after at most 5 page fetches and at
\* most 15 HTTP attempts, whatever the registry answers.
ThmC29 ==
    sScript # <<>> =>
        /\ ENABLED RunSearch \/ sOut # Pending
        /\ sOut # Pending => (sOut.fetches <= 5 /\ sOut.http <= 15)

WitC29 ==
    /\ sOut # Pending
    /\ ~sOut.error
    /\ sOut.fetches = 5
    /\ sOut.http = 15

\* C30: in calls made one after the other, every step that creates or
\* deletes a Trial of a Brief is taken while the Brief is persisted as
\* Generating and leaves it so: a refresh has persisted Generating before
\* it deletes the old Trials, and no Trial is written once Completed or
\* Failed is persisted.
ThmC30 ==
    [][ \A b \in Briefs :
          trialsOf'[b] # trialsOf[b] =>
              /\ db[b].status = STATUS_GENERATING
              /\ db'[b].status = STATUS_GENERATING
              /\ \E p \in Procs : proc[p].bid = b /\ InRun(p) /\ InRun(p)' ]_vars

WitC30 ==
    \E p \in Procs :
        /\ proc[p].op = "refresh"
        /\ proc[p].pc = "r_trials"
        /\ proc[p].pre.trials # <<>>
        /\ proc[p].pre.brief.status = STATUS_FAILED
        /\ trialsOf[proc[p].bid] # <<>>
        /\ trialsOf[proc[p].bid] # proc[p].pre.trials
        /\ db[proc[p].bid].status = STATUS_GENERATING

====
